---- MODULE Spec2Model ----
(***************************************************************************)
(* Model of the tunnelling data path of jaka1m/rokok:                      *)
(*   protocols.js  (src/unnamed/part_000)  sniffer and header decoders     *)
(*   websocket.js  (src/unnamed/part_002)  WebSocket <-> TCP/DNS bridging  *)
(*   utils.js      (src/unnamed/part_002)  base64ToArrayBuffer, hex text   *)
(*   config.js     (src/unnamed/part_001)  constants                       *)
(*                                                                         *)
(* Byte buffers are sequences of 0..255.  Text (addresses, hex strings)    *)
(* is a sequence of character codes.  A JavaScript `undefined` read from   *)
(* an out-of-range typed-array index is the value Undef.                   *)
(***************************************************************************)
EXTENDS Integers, Sequences, FiniteSets, TLC

\* ------------------------------------------------------------------------
\* Bounds of the model
\* ------------------------------------------------------------------------
MaxMsgs == 2
MaxRemoteChunks == 2
MaxConn == 3

\* ------------------------------------------------------------------------
\* config.js
\* ------------------------------------------------------------------------
WS_READY_STATE_OPEN == 1
WS_READY_STATE_CLOSING == 2
DNS_SERVER_PORT == 53
DNS_SERVER_ADDRESS == <<56, 46, 56, 46, 56, 46, 56>>
PROTOCOLS == <<"trojan", "vless", "ss">>

\* ------------------------------------------------------------------------
\* JavaScript primitives used by the decoders
\* ------------------------------------------------------------------------
Undef == -1

Min(a, b) == IF a < b THEN a ELSE b

\* ArrayBuffer.prototype.slice(a, b) for 0 <= a: both ends clamped to the length
Slice(buf, a, b) == SubSeq(buf, a + 1, Min(b, Len(buf)))

\* ArrayBuffer.prototype.slice(a): to the end of the buffer
SliceFrom(buf, a) == SubSeq(buf, a + 1, Len(buf))

\* new Uint8Array(buf.slice(i, i + 1))[0]: undefined past the end
ByteAt(buf, i) == IF i < Len(buf) THEN buf[i + 1] ELSE Undef

\* one digit of Number.prototype.toString(radix): '0'..'9', 'a'..'f'
DigitChar(d) == IF d < 10 THEN 48 + d ELSE 87 + d

RECURSIVE NumToString(_, _)
NumToString(n, radix) ==
    IF n < radix THEN <<DigitChar(n)>>
    ELSE NumToString(n \div radix, radix) \o <<DigitChar(n % radix)>>

\* Array.prototype.join(sep) over an array of strings
RECURSIVE Join(_, _)
Join(strs, sep) ==
    IF Len(strs) = 0 THEN <<>>
    ELSE IF Len(strs) = 1 THEN strs[1]
    ELSE strs[1] \o sep \o Join(Tail(strs), sep)

\* new Uint8Array(buf).join("."): decimal octets separated by '.'
JoinDot(buf) == Join([i \in 1..Len(buf) |-> NumToString(buf[i], 10)], <<46>>)

\* new TextDecoder().decode(buf) on single-byte input: ASCII kept, any other
\* byte becomes U+FFFD
TextDecode(buf) == [i \in 1..Len(buf) |-> IF buf[i] < 128 THEN buf[i] ELSE 65533]

\* the two bytes read low byte first
GetUint16LittleEndian(buf, off) == buf[off + 1] + 256 * buf[off + 2]

\* DataView.getUint16(0) of a two-byte buffer (big-endian)
GetUint16(buf, off) == 256 * buf[off + 1] + buf[off + 2]

\* the eight groups pushed by the IPv6 loop, joined with ':'
Ipv6Text(buf) == Join([i \in 1..8 |-> NumToString(GetUint16(buf, 2 * (i - 1)), 16)], <<58>>)

\* utils.js arrayBufferToHex: two lowercase hex digits per byte, no separator
PadStart2(s) == IF Len(s) < 2 THEN <<48>> \o s ELSE s

arrayBufferToHex(buf) == Join([i \in 1..Len(buf) |-> PadStart2(NumToString(buf[i], 16))], <<>>)

\* ------------------------------------------------------------------------
\* protocols.js protocolSniffer
\* ------------------------------------------------------------------------
HexClass == (48..57) \cup (97..102) \cup (65..70)

Rep(cls, n) == [i \in 1..n |-> cls]

\* /^[0-9a-f]{8}-[0-9a-f]{4}-4[0-9a-f]{3}-[89ab][0-9a-f]{3}-[0-9a-f]{12}$/i
\* as the sequence of character classes it matches position by position
UuidV4Pattern ==
    Rep(HexClass, 8) \o <<{45}>> \o Rep(HexClass, 4) \o <<{45}>>
    \o <<{52}>> \o Rep(HexClass, 3) \o <<{45}>>
    \o <<{56, 57, 97, 98, 65, 66}>> \o Rep(HexClass, 3) \o <<{45}>>
    \o Rep(HexClass, 12)

\* RegExp.prototype.test for an anchored pattern of single-character classes
RegexTest(pattern, s) ==
    /\ Len(s) = Len(pattern)
    /\ \A i \in 1..Len(s) : s[i] \in pattern[i]

\* the sniffer without 0x7f among the bytes accepted at offset 58
HorseDelimiterCmdsNo7f == {1, 3}

\* the values the sniffer accepts at offset 58 (line 13)
HorseDelimiterCmds == {1, 3, 127}

HorseDelimiterMatch(buffer) ==
    /\ Len(buffer) >= 62
    /\ LET horseDelimiter == Slice(buffer, 56, 60)
       IN /\ horseDelimiter[1] = 13
          /\ horseDelimiter[2] = 10
          /\ horseDelimiter[3] \in HorseDelimiterCmds
          /\ horseDelimiter[4] \in {1, 3, 4}

FlashDelimiterMatch(buffer) ==
    RegexTest(UuidV4Pattern, arrayBufferToHex(Slice(buffer, 1, 17)))

protocolSniffer(buffer) ==
    IF HorseDelimiterMatch(buffer) THEN PROTOCOLS[1]
    ELSE IF FlashDelimiterMatch(buffer) THEN PROTOCOLS[2]
    ELSE PROTOCOLS[3]

\* ------------------------------------------------------------------------
\* Decoder results: the returned object, or a thrown RangeError
\* ------------------------------------------------------------------------
NoVersion == <<>>

HdrOk(addr, atyp, port, raw, udp, ver) ==
    [st |-> "ok", message |-> "", addressRemote |-> addr, addressType |-> atyp,
     portRemote |-> port, rawClientData |-> raw, isUDP |-> udp, version |-> ver]

HdrError(msg) ==
    [st |-> "error", message |-> msg, addressRemote |-> <<>>, addressType |-> Undef,
     portRemote |-> Undef, rawClientData |-> <<>>, isUDP |-> FALSE, version |-> NoVersion]

HdrThrow ==
    [st |-> "throw", message |-> "RangeError", addressRemote |-> <<>>, addressType |-> Undef,
     portRemote |-> Undef, rawClientData |-> <<>>, isUDP |-> FALSE, version |-> NoVersion]

HdrNone ==
    [st |-> "none", message |-> "", addressRemote |-> <<>>, addressType |-> Undef,
     portRemote |-> Undef, rawClientData |-> <<>>, isUDP |-> FALSE, version |-> NoVersion]

\* ------------------------------------------------------------------------
\* The address switch shared in shape by the three decoders.  kind is the
\* case taken ("ipv4", "domain", "ipv6"), index the addressValueIndex on
\* entry, bracket whether the IPv6 text is wrapped in [ ].
\* Result: thrown (the IPv6 DataView reads past its buffer), the
\* addressValue, the addressLength (Undef when the length byte is missing)
\* and the addressValueIndex on exit.
\* ------------------------------------------------------------------------
AddressSwitch(buf, kind, index, bracket) ==
    IF kind = "ipv4" THEN
        [thrown |-> FALSE, value |-> JoinDot(Slice(buf, index, index + 4)),
         length |-> 4, index |-> index]
    ELSE IF kind = "domain" THEN
        LET addressLength == ByteAt(buf, index)
        IN [thrown |-> FALSE,
            value |-> IF addressLength = Undef THEN <<>>
                      ELSE TextDecode(Slice(buf, index + 1, index + 1 + addressLength)),
            length |-> addressLength, index |-> index + 1]
    ELSE
        LET part == Slice(buf, index, index + 16)
        IN IF Len(part) < 16
           THEN [thrown |-> TRUE, value |-> <<>>, length |-> 16, index |-> index]
           ELSE [thrown |-> FALSE,
                 value |-> IF bracket THEN <<91>> \o Ipv6Text(part) \o <<93>>
                           ELSE Ipv6Text(part),
                 length |-> 16, index |-> index]

\* ------------------------------------------------------------------------
\* protocols.js readSsHeader
\* ------------------------------------------------------------------------
SsKind(addressType) ==
    CASE addressType = 1 -> "ipv4"
      [] addressType = 3 -> "domain"
      [] addressType = 4 -> "ipv6"
      [] OTHER -> "invalid"

\* isUDP never set by the Shadowsocks decoder
SsIsUdpNever(portRemote) == FALSE

\* line 78: isUDP: portRemote === 53
SsIsUdp(portRemote) == portRemote = 53

readSsHeader(ssBuffer) ==
    IF Len(ssBuffer) = 0 THEN HdrThrow
    ELSE
    LET addressType == ssBuffer[1]
        kind == SsKind(addressType)
    IN IF kind = "invalid" THEN HdrError("Invalid addressType for SS")
       ELSE
       LET a == AddressSwitch(ssBuffer, kind, 1, FALSE)
       IN IF a.thrown THEN HdrThrow
          ELSE IF a.value = <<>> THEN HdrError("Destination address empty for SS")
          ELSE
          LET portIndex == a.index + a.length
              portBuf == Slice(ssBuffer, portIndex, portIndex + 2)
          IN IF Len(portBuf) < 2 THEN HdrThrow
             ELSE
             LET portRemote == GetUint16(portBuf, 0)
             IN HdrOk(a.value, addressType, portRemote,
                      SliceFrom(ssBuffer, portIndex + 2), SsIsUdp(portRemote),
                      NoVersion)

\* ------------------------------------------------------------------------
\* protocols.js readFlashHeader
\* ------------------------------------------------------------------------
\* the VLESS address switch with the tags of Shadowsocks and Trojan
FlashKindSsTags(addressType) == SsKind(addressType)

FlashKind(addressType) ==
    CASE addressType = 1 -> "ipv4"
      [] addressType = 2 -> "domain"
      [] addressType = 3 -> "ipv6"
      [] OTHER -> "invalid"

\* a prelude of two zero bytes whatever the frame starts with
FlashVersionZero(buffer) == <<0, 0>>

\* new Uint8Array([version[0], 0]): an undefined element is stored as 0
FlashVersion(buffer) == <<IF ByteAt(buffer, 0) = Undef THEN 0 ELSE ByteAt(buffer, 0), 0>>

readFlashHeader(buffer) ==
    LET optLength == ByteAt(buffer, 17)
        \* 18 + undefined is NaN and slice(NaN, NaN) is empty: cmd is undefined
        cmd == IF optLength = Undef THEN Undef ELSE ByteAt(buffer, 18 + optLength)
    IN IF cmd \notin {1, 2} THEN HdrError("Unsupported VLESS command")
       ELSE
       LET portIndex == 18 + optLength + 1
           portBuf == Slice(buffer, portIndex, portIndex + 2)
       IN IF Len(portBuf) < 2 THEN HdrThrow
          ELSE
          LET portRemote == GetUint16(portBuf, 0)
              addressType == ByteAt(buffer, portIndex + 2)
              kind == FlashKind(addressType)
          IN IF kind = "invalid" THEN HdrError("Invalid VLESS addressType")
             ELSE
             LET a == AddressSwitch(buffer, kind, portIndex + 3, TRUE)
             IN IF a.thrown THEN HdrThrow
                ELSE IF a.value = <<>> THEN HdrError("Empty VLESS address")
                ELSE HdrOk(a.value, addressType, portRemote,
                           SliceFrom(buffer, a.index + a.length), cmd = 2,
                           FlashVersion(buffer))

\* ------------------------------------------------------------------------
\* protocols.js readHorseHeader
\* ------------------------------------------------------------------------
\* the Trojan address switch with the tags of VLESS
HorseKindFlashTags(addressType) == FlashKind(addressType)

HorseKind(addressType) ==
    CASE addressType = 1 -> "ipv4"
      [] addressType = 3 -> "domain"
      [] addressType = 4 -> "ipv6"
      [] OTHER -> "invalid"

\* the residual taken right after the port, the CRLF not skipped
HorseResidualIndexNoCrlf(portIndex) == portIndex + 2

\* dataBuffer.slice(portIndex + 4): 2 bytes for port, 2 for CRLF
HorseResidualIndex(portIndex) == portIndex + 4

\* the decoder taking every command the sniffer lets through
HorseCmdsWith7f == {1, 3, 127}

\* lines 160-164: the commands readHorseHeader accepts, 1 TCP and 3 UDP
HorseCmds == {1, 3}

readHorseHeader(buffer) ==
    LET dataBuffer == SliceFrom(buffer, 58)
    IN IF Len(dataBuffer) < 6 THEN HdrError("Invalid Trojan request data")
       ELSE
       LET cmd == dataBuffer[1]
       IN IF cmd \notin HorseCmds THEN HdrError("Unsupported Trojan command")
          ELSE
          LET addressType == dataBuffer[2]
              kind == HorseKind(addressType)
          IN IF kind = "invalid" THEN HdrError("Invalid Trojan addressType")
             ELSE
             LET a == AddressSwitch(dataBuffer, kind, 2, TRUE)
             IN IF a.thrown THEN HdrThrow
                ELSE IF a.value = <<>> THEN HdrError("Empty Trojan address")
                ELSE
                LET portIndex == a.index + a.length
                    portBuf == Slice(dataBuffer, portIndex, portIndex + 2)
                IN IF Len(portBuf) < 2 THEN HdrThrow
                   ELSE HdrOk(a.value, addressType, GetUint16(portBuf, 0),
                              SliceFrom(dataBuffer, HorseResidualIndex(portIndex)),
                              cmd = 3, NoVersion)

\* the decoder websocketHandler picks for a sniffed protocol
ReadHeader(verdict, chunk) ==
    CASE verdict = PROTOCOLS[1] -> readHorseHeader(chunk)
      [] verdict = PROTOCOLS[2] -> readFlashHeader(chunk)
      [] OTHER -> readSsHeader(chunk)

\* ------------------------------------------------------------------------
\* Inputs of the tunnel model
\* ------------------------------------------------------------------------
Zeros(n) == [i \in 1..n |-> 0]

\* a UUIDv4 (version nibble 4, variant nibble 8)
SampleUuid == <<17, 34, 51, 68, 85, 102, 71, 136, 137, 0, 1, 2, 3, 4, 5, 6>>

\* 01 | 0A 00 00 01 | 00 50 | 48 49
SsTcpFrame == <<1, 10, 0, 0, 1, 0, 80, 72, 73>>
\* 01 | 08 08 08 08 | 00 35 | query
SsDnsFrame == <<1, 8, 8, 8, 8, 0, 53, 0, 1, 7>>
\* hash(56) | CRLF | cmd | atyp | addr | port | CRLF | payload
TrojanFrame(cmd, port, payload) ==
    Zeros(56) \o <<13, 10, cmd, 1, 1, 2, 3, 4, port \div 256, port % 256, 13, 10>> \o payload
\* version | uuid | optLen 0 | cmd | port 443 | atyp 1 | addr | payload
VlessFrame(cmd, port) ==
    <<0>> \o SampleUuid \o <<0, cmd, port \div 256, port % 256, 1, 1, 2, 3, 4, 80, 65>>

\* first messages no decoder accepts: Trojan with command 0x7f, a Trojan
\* marker frame of 63 bytes, Shadowsocks with an empty domain, a Trojan
\* marker frame of 62 bytes with command 0x7f
SsEmptyDomainFrame == <<3, 0, 0, 80>>
TrojanShortFrame == SubSeq(TrojanFrame(1, 443, <<>>), 1, 63)
Trojan7fShortFrame == SubSeq(TrojanFrame(127, 443, <<>>), 1, 62)
MalformedFrames ==
    {TrojanFrame(127, 443, <<80>>), TrojanShortFrame, SsEmptyDomainFrame,
     Trojan7fShortFrame}

\* a well-formed Shadowsocks frame whose domain is the one character ' '
SsBadHostFrame == <<3, 1, 32, 0, 80, 72>>

\* first messages a client may open the tunnel with
FirstFrames ==
    {SsTcpFrame, SsDnsFrame, TrojanFrame(1, 443, <<80>>), TrojanFrame(3, 53, <<0, 1, 7>>),
     TrojanFrame(3, 80, <<80>>), VlessFrame(1, 443), VlessFrame(2, 53), <<>>}
    \cup MalformedFrames \cup {SsBadHostFrame}

\* later messages
LaterChunks == {<<65>>, <<66, 67>>}

\* payload chunks a remote endpoint (or the DNS server) may send
RemoteChunks == {<<170>>, <<187, 204>>}

\* upstream hints captured by the route pattern /(.+[:=-]\d+)$/ (part_001 line 73):
\* "h-9" and "--9"
Hints == {<<104, 45, 57>>, <<45, 45, 57>>}

\* ------------------------------------------------------------------------
\* utils.js: base64ToArrayBuffer
\* ------------------------------------------------------------------------
\* line 395: replace(/-/g, "+").replace(/_/g, "/")
UrlToStd(c) == IF c = 45 THEN 43 ELSE IF c = 95 THEN 47 ELSE c

\* the base64 alphabet A-Z a-z 0-9 + / and the value of each character
B64Alphabet == (65..90) \cup (97..122) \cup (48..57) \cup {43, 47}

B64Value(c) ==
    IF c \in 65..90 THEN c - 65
    ELSE IF c \in 97..122 THEN c - 71
    ELSE IF c \in 48..57 THEN c + 4
    ELSE IF c = 43 THEN 62 ELSE 63

\* atob first removes ASCII whitespace, then up to two '=' that end a string
\* whose length is a multiple of four
AtobStripped(str) ==
    LET t == SelectSeq(str, LAMBDA c : c \notin {9, 10, 12, 13, 32})
        n == Len(t)
    IN  IF n > 0 /\ n % 4 = 0 /\ t[n] = 61
        THEN IF t[n - 1] = 61 THEN SubSeq(t, 1, n - 2) ELSE SubSeq(t, 1, n - 1)
        ELSE t

\* atob throws InvalidCharacterError on a length that is 1 modulo 4 and on a
\* character outside the alphabet
AtobThrows(str) ==
    LET t == AtobStripped(str)
    IN  \/ Len(t) % 4 = 1
        \/ \E k \in 1..Len(t) : t[k] \notin B64Alphabet

\* six bits a character, eight bits a byte, left-over bits dropped
RECURSIVE B64Bytes(_)
B64Bytes(v) ==
    IF Len(v) >= 4
    THEN LET n == v[1] * 262144 + v[2] * 4096 + v[3] * 64 + v[4]
         IN  <<n \div 65536, (n \div 256) % 256, n % 256>>
                 \o B64Bytes(SubSeq(v, 5, Len(v)))
    ELSE IF Len(v) = 3
    THEN LET n == v[1] * 4096 + v[2] * 64 + v[3]
         IN  <<n \div 1024, (n \div 4) % 256>>
    ELSE IF Len(v) = 2
    THEN <<(v[1] * 64 + v[2]) \div 16>>
    ELSE <<>>

Atob(str) ==
    LET t == AtobStripped(str)
    IN  B64Bytes([k \in 1..Len(t) |-> B64Value(t[k])])

\* base64ToArrayBuffer: { earlyData, error }; has tells a buffer from null
base64ToArrayBuffer(base64Str) ==
    IF base64Str = <<>>
    THEN [has |-> FALSE, earlyData |-> <<>>, error |-> FALSE]
    ELSE LET std == [k \in 1..Len(base64Str) |-> UrlToStd(base64Str[k])]
         IN  IF AtobThrows(std)
             THEN [has |-> FALSE, earlyData |-> <<>>, error |-> TRUE]
             ELSE [has |-> TRUE, earlyData |-> Atob(std), error |-> FALSE]

\* sec-websocket-protocol headers a client may send: none, "AQoAAAEAUEhJ"
\* (the Shadowsocks frame 01 0a 00 00 01 00 50 48 49), "AQgICAgANQABBw=="
\* (the Shadowsocks frame 01 08 08 08 08 00 35 00 01 07), "!" and "A"
EarlyDataSsTcp == <<65, 81, 111, 65, 65, 65, 69, 65, 85, 69, 104, 74>>
EarlyDataSsDns == <<65, 81, 103, 73, 67, 65, 103, 65, 78, 81, 65, 66, 66, 119, 61, 61>>
EarlyDataHeaders == {<<>>, EarlyDataSsTcp, EarlyDataSsDns, <<33>>, <<65>>}

\* ------------------------------------------------------------------------
\* State
\* ------------------------------------------------------------------------
VARIABLES
    frame, sniffed, ssHeader, flashHeader, horseHeader,  \* decoders applied to one frame
    prxIP,                 \* websocketHandler argument: the upstream hint
    earlyDataHeader,       \* the request's sec-websocket-protocol header, "" if absent
    wsIn,                  \* the client's close has been received by webSocket
    wsOut,                 \* webSocket.close() has been called by the gateway
    wsCloseCalls,          \* invocations of webSocket.close() so far
    rs,                    \* state of readableWebSocketStream
    inq,                   \* chunks enqueued in readableWebSocketStream
    readableStreamCancel,  \* makeReadableWebSocketStream flag
    nMsgs,                 \* message events delivered so far
    pipe,                  \* state of the WritableStream sink of the client pipeline
    pipeError,             \* the error the client pipeline ended with
    cur,                   \* the chunk a pending sink write is writing
    isDNS,                 \* websocketHandler local
    remoteValue,           \* remoteSocketWrapper.value: index into socks, 0 for null
    parsed,                \* protocolHeader of the first chunk
    protocol,              \* the sniffer's verdict on the first chunk, "" before
    nParsed,               \* chunks the sniffer and a decoder have been run on
    socks,                 \* the TCP sockets opened by connectAndWrite, in order
    dns,                   \* the handleUDPOutbound call in progress
    dnsWire,               \* chunks written to the DNS server, in order
    dnsConn,               \* connections opened to the DNS server
    dnsDone,               \* handleUDPOutbound calls that have returned
    wsSent,                \* frames passed to webSocket.send while OPEN, in order
    sendNotOpen,           \* webSocket.send invocations made while not OPEN
    taken,                 \* chunks write() was called with after the first, in order
    closeTest              \* a socket object handed to safeCloseWebSocket on its own

codecVars == <<frame, sniffed, ssHeader, flashHeader, horseHeader>>
wsVars == <<wsIn, wsOut, wsCloseCalls, rs, inq, readableStreamCancel, nMsgs>>
pipeVars == <<pipe, pipeError, cur, isDNS, remoteValue, parsed, protocol, nParsed>>
dnsVars == <<dns, dnsWire, dnsConn, dnsDone>>
tunnelVars == <<prxIP, earlyDataHeader, wsVars, pipeVars, socks, dnsVars, wsSent, sendNotOpen, taken>>
unitVars == <<codecVars, closeTest>>
vars == <<unitVars, tunnelVars>>

\* ------------------------------------------------------------------------
\* WebSocket ready state and safeCloseWebSocket
\* ------------------------------------------------------------------------
\* OPEN until one side has closed, CLOSING until both have, then CLOSED (3)
ReadyState(in, out) ==
    IF ~in /\ ~out THEN WS_READY_STATE_OPEN
    ELSE IF in /\ out THEN 3
    ELSE WS_READY_STATE_CLOSING

\* close() invoked whatever the ready state is
CloseInvokedAlways(readyState) == TRUE

\* line 281: the ready states in which safeCloseWebSocket invokes close()
CloseInvoked(readyState) ==
    readyState \in {WS_READY_STATE_OPEN, WS_READY_STATE_CLOSING}

\* safeCloseWebSocket(socket): the value of wsOut after the call
safeCloseWebSocket(in, out) ==
    IF CloseInvoked(ReadyState(in, out)) THEN TRUE ELSE out

\* safeCloseWebSocket(socket): the number of close() invocations after the call
CloseCallsAfter(in, out, n) ==
    IF CloseInvoked(ReadyState(in, out)) THEN n + 1 ELSE n

\* ------------------------------------------------------------------------
\* Initial state: websocketHandler has accepted the WebSocket and built the
\* inbound stream from the early-data header; no message received yet
\* ------------------------------------------------------------------------
NoDns == [st |-> "none", chunk |-> <<>>, header |-> NoVersion, nrx |-> 0]

\* the chunk put in front of the queued ones
EnqueueFront(queue, chunk) == <<chunk>> \o queue

\* controller.enqueue(chunk): behind the chunks already queued
Enqueue(queue, chunk) == Append(queue, chunk)

\* websocketHandler up to pipeTo: start() hands the decoded early data to
\* controller.enqueue, or the decode error to controller.error
TunnelStart(header) ==
    /\ earlyDataHeader = header
    /\ wsIn = FALSE /\ wsOut = FALSE /\ wsCloseCalls = 0
    /\ LET decoded == base64ToArrayBuffer(header)
       IN  /\ rs = IF decoded.error THEN "errored" ELSE "readable"
           /\ inq = IF ~decoded.error /\ decoded.has
                   THEN Enqueue(<<>>, decoded.earlyData) ELSE <<>>
    /\ readableStreamCancel = FALSE /\ nMsgs = 0
    /\ pipe = "idle" /\ pipeError = "" /\ cur = <<>>
    /\ isDNS = FALSE /\ remoteValue = 0 /\ parsed = HdrNone /\ protocol = "" /\ nParsed = 0
    /\ socks = <<>>
    /\ dns = NoDns /\ dnsWire = <<>> /\ dnsConn = 0 /\ dnsDone = 0
    /\ wsSent = <<>> /\ sendNotOpen = 0
    /\ taken = <<>>

\* a request without early data
TunnelIdle == TunnelStart(<<>>)

CodecIdle ==
    /\ frame = <<>> /\ sniffed = "" /\ ssHeader = HdrNone
    /\ flashHeader = HdrNone /\ horseHeader = HdrNone

\* a socket object before safeCloseWebSocket is invoked on it: accepted or
\* not, closed by the peer (in) or by close() (out), with a close() that
\* throws or not
CloseTestSocket(accepted, in, out, throws) ==
    [accepted |-> accepted, in |-> in, out |-> out, throws |-> throws,
     invocations |-> 0, closeCalls |-> 0, raised |-> FALSE,
     lastReady |-> Undef, lastCalled |-> FALSE]

CloseTestIdle == closeTest = CloseTestSocket(TRUE, FALSE, FALSE, FALSE)

Init ==
    /\ prxIP \in Hints
    /\ \E header \in EarlyDataHeaders : TunnelStart(header)
    /\ CodecIdle
    /\ CloseTestIdle

\* ------------------------------------------------------------------------
\* makeReadableWebSocketStream: the WebSocket event listeners
\* ------------------------------------------------------------------------
\* "message" listener; enqueue on a stream that is no longer readable throws
\* inside the listener and changes nothing
WsMessage(c) ==
    /\ ~wsIn
    /\ nMsgs < MaxMsgs
    /\ nMsgs' = nMsgs + 1
    /\ inq' = IF ~readableStreamCancel /\ rs = "readable" THEN Enqueue(inq, c) ELSE inq
    /\ UNCHANGED <<wsIn, wsOut, wsCloseCalls, rs, readableStreamCancel>>
    /\ UNCHANGED <<prxIP, earlyDataHeader, pipeVars, socks, dnsVars, wsSent, sendNotOpen, taken, unitVars>>

\* "close" listener: safeCloseWebSocket, then controller.close() unless cancelled
WsClose ==
    /\ ~wsIn
    /\ wsIn' = TRUE
    /\ wsOut' = safeCloseWebSocket(TRUE, wsOut)
    /\ wsCloseCalls' = CloseCallsAfter(TRUE, wsOut, wsCloseCalls)
    /\ rs' = IF ~readableStreamCancel /\ rs = "readable" THEN "closeRequested" ELSE rs
    /\ UNCHANGED <<inq, readableStreamCancel, nMsgs>>
    /\ UNCHANGED <<prxIP, earlyDataHeader, pipeVars, socks, dnsVars, wsSent, sendNotOpen, taken, unitVars>>

\* "error" listener: controller.error(err) discards the queue
WsError ==
    /\ rs = "readable" \/ (rs = "closeRequested" /\ inq # <<>>)
    /\ rs' = "errored"
    /\ inq' = <<>>
    /\ UNCHANGED <<wsIn, wsOut, wsCloseCalls, readableStreamCancel, nMsgs>>
    /\ UNCHANGED <<prxIP, earlyDataHeader, pipeVars, socks, dnsVars, wsSent, sendNotOpen, taken, unitVars>>

\* ------------------------------------------------------------------------
\* websocketHandler: readableWebSocketStream.pipeTo(new WritableStream(...))
\* ------------------------------------------------------------------------
\* The sink's write threw with q left in the queue: pipeTo cancels the source,
\* and cancel(reason) runs when the stream is still readable.
SinkThrows(reason, q) ==
    /\ pipe' = "errored"
    /\ pipeError' = reason
    /\ cur' = <<>>
    /\ IF rs = "readable" \/ (rs = "closeRequested" /\ q # <<>>)
       THEN /\ readableStreamCancel' = TRUE
            /\ wsOut' = safeCloseWebSocket(wsIn, wsOut)
            /\ wsCloseCalls' = CloseCallsAfter(wsIn, wsOut, wsCloseCalls)
            /\ rs' = "cancelled"
            /\ inq' = <<>>
       ELSE /\ inq' = q
            /\ UNCHANGED <<readableStreamCancel, wsOut, wsCloseCalls, rs>>

\* the source closed and drained: pipeTo closes the sink (close() logs)
SinkClose ==
    /\ pipe = "idle"
    /\ rs = "closeRequested"
    /\ inq = <<>>
    /\ pipe' = "closed"
    /\ UNCHANGED <<pipeError, cur, isDNS, remoteValue, parsed, protocol, nParsed>>
    /\ UNCHANGED <<prxIP, earlyDataHeader, wsVars, socks, dnsVars, wsSent, sendNotOpen, taken, unitVars>>

\* the source errored: pipeTo aborts the sink (abort() logs)
SinkAbort ==
    /\ pipe = "idle"
    /\ rs = "errored"
    /\ pipe' = "aborted"
    /\ UNCHANGED <<pipeError, cur, isDNS, remoteValue, parsed, protocol, nParsed>>
    /\ UNCHANGED <<prxIP, earlyDataHeader, wsVars, socks, dnsVars, wsSent, sendNotOpen, taken, unitVars>>

\* the characters of a host name that connect() accepts: letters, digits and
\* - . _ [ ] :
HostChars == (48..57) \cup (65..90) \cup (97..122) \cup {45, 46, 95, 91, 93, 58}

\* line 135: connect() of cloudflare:sockets throws a TypeError, synchronously,
\* for a hostname it cannot take as a host; any other failure to connect shows
\* later, on the socket's streams
ConnectThrows(address) == \E k \in 1..Len(address) : address[k] \notin HostChars

\* connectAndWrite up to its await: connect(), remoteSocket.value = tcpSocket,
\* getWriter(), writer.write(rawClientData) pending
NewSock(address, port, viaRetry) ==
    [hostname |-> address, port |-> port, wlock |-> TRUE, wpend |-> "resid",
     wire |-> <<>>, rd |-> "open", stage |-> "connecting", header |-> NoVersion,
     hasIncomingData |-> FALSE, retry |-> FALSE, viaRetry |-> viaRetry, nrx |-> 0]

\* handleUDPOutbound up to its first await: connect(), getWriter(),
\* writer.write(udpChunk) pending
StartUDPOutbound(udpChunk, responseHeader) ==
    /\ dns' = [st |-> "writing", chunk |-> udpChunk, header |-> responseHeader, nrx |-> 0]
    /\ dnsConn' = dnsConn + 1
    /\ UNCHANGED <<dnsWire, dnsDone>>

\* write() not waiting for handleUDPOutbound
SinkDuringDnsNotAwaited == "idle"

\* lines 47 and 85: write() returns the promise of handleUDPOutbound, so the
\* sink takes no further chunk until that call has returned
SinkDuringDns == "dns"

\* UDP let through for every port
UdpAllowedAnyPort(portRemote) == TRUE

\* line 77: the only port UDP is let through for
UdpAllowed(portRemote) == portRemote = 53

\* the hasError test skipped
HasErrorIgnored(protocolHeader) == FALSE

\* line 72: if (protocolHeader.hasError)
HasError(protocolHeader) == protocolHeader.st = "error"

\* write(chunk) for the first chunk from line 57 on, verdict being what the
\* sniffer returned: decode, gate UDP, route
RouteFirst(verdict) ==
    /\ pipe = "idle"
    /\ inq # <<>>
    /\ ~isDNS
    /\ remoteValue = 0
    /\ LET chunk == Head(inq)
           q == Tail(inq)
           protocolHeader == ReadHeader(verdict, chunk)
       IN /\ protocol' = verdict
          /\ parsed' = protocolHeader
          /\ nParsed' = nParsed + 1
          /\ IF protocolHeader.st = "throw" THEN
                 /\ SinkThrows("RangeError", q)
                 /\ UNCHANGED <<isDNS, remoteValue, socks, dnsVars>>
             ELSE IF HasError(protocolHeader) THEN
                 /\ SinkThrows(protocolHeader.message, q)
                 /\ UNCHANGED <<isDNS, remoteValue, socks, dnsVars>>
             ELSE IF protocolHeader.isUDP /\ ~UdpAllowed(protocolHeader.portRemote) THEN
                 /\ SinkThrows("UDP only supports DNS port 53", q)
                 /\ UNCHANGED <<isDNS, remoteValue, socks, dnsVars>>
             ELSE IF protocolHeader.isUDP THEN
                 /\ isDNS' = TRUE
                 /\ StartUDPOutbound(chunk, protocolHeader.version)
                 /\ pipe' = SinkDuringDns
                 /\ inq' = q
                 /\ UNCHANGED <<pipeError, cur, remoteValue, socks>>
                 /\ UNCHANGED <<wsOut, wsCloseCalls, rs, readableStreamCancel>>
             ELSE IF ConnectThrows(protocolHeader.addressRemote) THEN
                 \* handleTCPOutBound rejects before line 139 and nobody
                 \* handles it: write() returns normally
                 /\ inq' = q
                 /\ UNCHANGED <<pipe, pipeError, cur, isDNS, remoteValue, socks, dnsVars>>
                 /\ UNCHANGED <<wsOut, wsCloseCalls, rs, readableStreamCancel>>
             ELSE
                 /\ socks' = Append(socks, NewSock(protocolHeader.addressRemote,
                                                   protocolHeader.portRemote, FALSE))
                 /\ remoteValue' = Len(socks) + 1
                 /\ inq' = q
                 /\ UNCHANGED <<pipe, pipeError, cur, isDNS, dnsVars>>
                 /\ UNCHANGED <<wsOut, wsCloseCalls, rs, readableStreamCancel>>
    /\ UNCHANGED <<wsIn, nMsgs, prxIP, earlyDataHeader, wsSent, sendNotOpen, taken, unitVars>>

\* write(chunk) for the first chunk: sniff (line 56), then the above
WriteFirst ==
    /\ inq # <<>>
    /\ RouteFirst(protocolSniffer(Head(inq)))

\* write(chunk) with remoteSocketWrapper.value set: getWriter() throws a
\* TypeError when the writable side is locked, else writer.write(chunk) pends
WriteRouted ==
    /\ pipe = "idle"
    /\ inq # <<>>
    /\ ~isDNS
    /\ remoteValue # 0
    /\ LET chunk == Head(inq)
           q == Tail(inq)
       IN /\ taken' = Append(taken, chunk)
          /\ IF socks[remoteValue].wlock THEN
              /\ SinkThrows("locked", q)
              /\ UNCHANGED socks
             ELSE
              /\ socks' = [socks EXCEPT ![remoteValue].wlock = TRUE,
                                        ![remoteValue].wpend = "chunk"]
              /\ pipe' = "writing"
              /\ cur' = chunk
              /\ inq' = q
              /\ UNCHANGED <<pipeError, wsOut, wsCloseCalls, rs, readableStreamCancel>>
    /\ UNCHANGED <<isDNS, remoteValue, parsed, protocol, nParsed>>
    /\ UNCHANGED <<wsIn, nMsgs, prxIP, earlyDataHeader, dnsVars, wsSent, sendNotOpen, unitVars>>

\* write(chunk) with isDNS set: handleUDPOutbound(DNS server, chunk, null)
WriteDNS ==
    /\ pipe = "idle"
    /\ inq # <<>>
    /\ isDNS
    /\ StartUDPOutbound(Head(inq), NoVersion)
    /\ taken' = Append(taken, Head(inq))
    /\ pipe' = SinkDuringDns
    /\ inq' = Tail(inq)
    /\ UNCHANGED <<pipeError, cur, isDNS, remoteValue, parsed, protocol, nParsed>>
    /\ UNCHANGED <<wsIn, wsOut, wsCloseCalls, rs, readableStreamCancel, nMsgs>>
    /\ UNCHANGED <<prxIP, earlyDataHeader, socks, wsSent, sendNotOpen, unitVars>>

\* await writer.write(chunk) resolved: releaseLock(), write returns
ChunkWritten(i) ==
    /\ pipe = "writing"
    /\ socks[i].wpend = "chunk"
    /\ socks[i].rd # "error"
    /\ socks' = [socks EXCEPT ![i].wire = Append(@, cur), ![i].wlock = FALSE,
                              ![i].wpend = "none"]
    /\ pipe' = "idle"
    /\ cur' = <<>>
    /\ UNCHANGED <<pipeError, isDNS, remoteValue, parsed, protocol, nParsed>>
    /\ UNCHANGED <<prxIP, earlyDataHeader, wsVars, dnsVars, wsSent, sendNotOpen, taken, unitVars>>

\* await writer.write(chunk) rejected: write throws, the lock is not released
ChunkWriteFailed ==
    /\ pipe = "writing"
    /\ SinkThrows("write failed", inq)
    /\ UNCHANGED <<isDNS, remoteValue, parsed, protocol, nParsed>>
    /\ UNCHANGED <<wsIn, nMsgs, prxIP, earlyDataHeader, socks, dnsVars, wsSent, sendNotOpen, taken, unitVars>>

\* ------------------------------------------------------------------------
\* handleTCPOutBound
\* ------------------------------------------------------------------------
\* String.prototype.split(/[:=-]/): the pieces between delimiters
RECURSIVE SplitHint(_, _)
SplitHint(s, piece) ==
    IF Len(s) = 0 THEN <<piece>>
    ELSE IF Head(s) \in {58, 61, 45} THEN <<piece>> \o SplitHint(Tail(s), <<>>)
    ELSE SplitHint(Tail(s), Append(piece, Head(s)))

\* retry(): [proxyAddress, proxyPort] = (prxIP || "").split(/[:=-]/), then
\* connectAndWrite(proxyAddress || addressRemote, proxyPort || portRemote)
RetrySock(hint, addressRemote, portRemote) ==
    LET parts == SplitHint(hint, <<>>)
        proxyAddress == parts[1]
        proxyPort == IF Len(parts) >= 2 THEN parts[2] ELSE <<>>
    IN NewSock(IF proxyAddress # <<>> THEN proxyAddress ELSE addressRemote,
               IF proxyPort # <<>> THEN proxyPort ELSE portRemote,
               TRUE)

\* the retry closure handed on to the bridge that retry starts, too
BridgeRetryArgAlways(viaRetry) == TRUE

\* the retry argument handed to remoteSocketToWS: the closure for the bridge of
\* the initial connection (line 164), null for the bridge started by retry (line 160)
BridgeRetryArg(viaRetry) == ~viaRetry

\* the retry decision without the hasIncomingData test
ShouldRetryIgnoringData(hasIncomingData, retry) == retry

\* remoteSocketToWS line 273: if (!hasIncomingData && retry)
ShouldRetry(hasIncomingData, retry) == ~hasIncomingData /\ retry

\* await writer.write(rawClientData) resolved: releaseLock(), connectAndWrite
\* returns, and the caller starts remoteSocketToWS on the socket
ResidualWritten(i) ==
    /\ socks[i].wpend = "resid"
    /\ socks[i].stage = "connecting"
    /\ socks' = [socks EXCEPT ![i].wire = Append(@, parsed.rawClientData),
                              ![i].wlock = FALSE,
                              ![i].wpend = "none",
                              ![i].stage = "bridging",
                              ![i].header = parsed.version,
                              ![i].retry = BridgeRetryArg(socks[i].viaRetry)]
    /\ UNCHANGED <<prxIP, earlyDataHeader, wsVars, pipeVars, dnsVars, wsSent, sendNotOpen, taken, unitVars>>

\* await writer.write(rawClientData) rejected: connectAndWrite throws, the
\* promise of handleTCPOutBound (or retry) rejects and nobody handles it
ResidualWriteFailed(i) ==
    /\ socks[i].wpend = "resid"
    /\ socks[i].stage = "connecting"
    /\ socks' = [socks EXCEPT ![i].stage = "dead", ![i].rd = "error"]
    /\ UNCHANGED <<prxIP, earlyDataHeader, wsVars, pipeVars, dnsVars, wsSent, sendNotOpen, taken, unitVars>>

\* ------------------------------------------------------------------------
\* remoteSocketToWS
\* ------------------------------------------------------------------------
\* the frame handed to webSocket.send: Blob([header, chunk]) or the chunk
BridgeFrame(header, chunk) == IF header # NoVersion THEN header \o chunk ELSE chunk

\* the header kept for the next frame as well
HeaderKept(header) == header

\* header = null (line 255), protocolHeader = null (line 187) after the send
HeaderAfterSend(header) == NoVersion

\* the statements after the awaited pipeTo, and for a socket opened by retry
\* the tcpSocket.closed handlers: the sockets and the WebSocket afterwards.
\* had is hasIncomingData when the pipeTo settles.
BridgeEnded(i, rd, closeWs, had) ==
    LET sk == socks[i]
        ended == [socks EXCEPT ![i].stage = "done", ![i].rd = rd,
                               ![i].hasIncomingData = had]
    IN /\ wsOut' = IF closeWs \/ sk.viaRetry
                   THEN safeCloseWebSocket(wsIn, wsOut) ELSE wsOut
       /\ wsCloseCalls' = IF closeWs \/ sk.viaRetry
                          THEN CloseCallsAfter(wsIn, wsOut, wsCloseCalls)
                          ELSE wsCloseCalls
       /\ IF ShouldRetry(had, sk.retry)
             /\ ~ConnectThrows(RetrySock(prxIP, parsed.addressRemote,
                                         parsed.portRemote).hostname)
          THEN /\ Len(socks) < MaxConn
               /\ socks' = Append(ended, RetrySock(prxIP, parsed.addressRemote,
                                                   parsed.portRemote))
               /\ remoteValue' = Len(socks) + 1
          ELSE /\ socks' = ended
               /\ UNCHANGED remoteValue

\* sink write(chunk) of the bridge
RemoteChunk(i, chunk) ==
    /\ socks[i].stage = "bridging"
    /\ socks[i].nrx < MaxRemoteChunks
    /\ IF ReadyState(wsIn, wsOut) # WS_READY_STATE_OPEN THEN
           \* hasIncomingData = true, controller.error(...) does not leave
           \* write(): webSocket.send is invoked all the same (lines 253-258)
           \* and reaches no client; pipeTo rejects and cancels the readable
           \* side, the catch closes the WebSocket
           /\ BridgeEnded(i, "cancelled", TRUE, TRUE)
           /\ sendNotOpen' = sendNotOpen + 1
           /\ UNCHANGED wsSent
       ELSE
           /\ wsSent' = Append(wsSent, BridgeFrame(socks[i].header, chunk))
           /\ socks' = [socks EXCEPT ![i].hasIncomingData = TRUE,
                                     ![i].header = HeaderAfterSend(@),
                                     ![i].nrx = @ + 1]
           /\ UNCHANGED <<wsOut, wsCloseCalls, remoteValue, sendNotOpen>>
    /\ UNCHANGED <<wsIn, rs, inq, readableStreamCancel, nMsgs>>
    /\ UNCHANGED <<pipe, pipeError, cur, isDNS, parsed, protocol, nParsed>>
    /\ UNCHANGED <<prxIP, earlyDataHeader, dnsVars, taken, unitVars>>

\* the remote closed its side: pipeTo resolves, sink close() logs
RemoteEOF(i) ==
    /\ socks[i].stage = "bridging"
    /\ BridgeEnded(i, "eof", FALSE, socks[i].hasIncomingData)
    /\ UNCHANGED <<wsIn, rs, inq, readableStreamCancel, nMsgs>>
    /\ UNCHANGED <<pipe, pipeError, cur, isDNS, parsed, protocol, nParsed>>
    /\ UNCHANGED <<prxIP, earlyDataHeader, dnsVars, wsSent, sendNotOpen, taken, unitVars>>

\* reading the remote failed: pipeTo rejects, the catch calls safeCloseWebSocket
RemoteError(i) ==
    /\ socks[i].stage = "bridging"
    /\ BridgeEnded(i, "error", TRUE, socks[i].hasIncomingData)
    /\ UNCHANGED <<wsIn, rs, inq, readableStreamCancel, nMsgs>>
    /\ UNCHANGED <<pipe, pipeError, cur, isDNS, parsed, protocol, nParsed>>
    /\ UNCHANGED <<prxIP, earlyDataHeader, dnsVars, wsSent, sendNotOpen, taken, unitVars>>

\* ------------------------------------------------------------------------
\* handleUDPOutbound
\* ------------------------------------------------------------------------
\* await writer.write(udpChunk) resolved: releaseLock(), the reply pipe starts
DnsWritten ==
    /\ dns.st = "writing"
    /\ dnsWire' = Append(dnsWire, dns.chunk)
    /\ dns' = [dns EXCEPT !.st = "bridging"]
    /\ UNCHANGED <<dnsConn, dnsDone, prxIP, earlyDataHeader, wsVars, pipeVars, socks, wsSent, sendNotOpen, taken, unitVars>>

\* sink write(chunk) of the reply pipe: sends only while the WebSocket is OPEN
DnsReply(chunk) ==
    /\ dns.st = "bridging"
    /\ dns.nrx < MaxRemoteChunks
    /\ IF ReadyState(wsIn, wsOut) = WS_READY_STATE_OPEN
       THEN /\ wsSent' = Append(wsSent, BridgeFrame(dns.header, chunk))
            /\ dns' = [dns EXCEPT !.header = HeaderAfterSend(@), !.nrx = @ + 1]
       ELSE /\ dns' = [dns EXCEPT !.nrx = @ + 1]
            /\ UNCHANGED wsSent
    /\ UNCHANGED <<sendNotOpen, dnsWire, dnsConn, dnsDone, prxIP, earlyDataHeader, wsVars, pipeVars, socks, taken, unitVars>>

\* the write or the reply pipe ended, by close or by an error that the
\* try/catch swallows: handleUDPOutbound returns and so does the sink's write
DnsEnded ==
    /\ dns.st \in {"writing", "bridging"}
    /\ pipe = "dns"
    /\ dns' = NoDns
    /\ dnsDone' = dnsDone + 1
    /\ pipe' = "idle"
    /\ UNCHANGED <<pipeError, cur, isDNS, remoteValue, parsed, protocol, nParsed>>
    /\ UNCHANGED <<dnsWire, dnsConn, prxIP, earlyDataHeader, wsVars, socks, wsSent, sendNotOpen, taken, unitVars>>

\* ------------------------------------------------------------------------
\* The tunnel
\* ------------------------------------------------------------------------
SockIds == 1..Len(socks)

\* steps the gateway takes by itself
GatewayNext ==
    \/ WriteFirst
    \/ WriteRouted
    \/ WriteDNS
    \/ SinkClose
    \/ SinkAbort

\* steps that wait for the client, the remote endpoint or the DNS server
EnvNext ==
    \/ \E c \in (IF nMsgs = 0 /\ earlyDataHeader = <<>> THEN FirstFrames ELSE LaterChunks) : WsMessage(c)
    \/ WsClose
    \/ WsError
    \/ \E i \in SockIds : ChunkWritten(i)
    \/ ChunkWriteFailed
    \/ \E i \in SockIds : ResidualWritten(i)
    \/ \E i \in SockIds : ResidualWriteFailed(i)
    \/ \E i \in SockIds : \E c \in RemoteChunks : RemoteChunk(i, c)
    \/ \E i \in SockIds : RemoteEOF(i)
    \/ \E i \in SockIds : RemoteError(i)
    \/ DnsWritten
    \/ \E c \in RemoteChunks : DnsReply(c)
    \/ DnsEnded

Next == GatewayNext \/ EnvNext

Spec == Init /\ [][Next]_vars

\* The tunnel from line 57 of write() on, for each verdict the sniffer can
\* hand to it: the decoders, handleTCPOutBound, handleUDPOutbound and
\* remoteSocketToWS exercised for every protocol.
WriteFirstAs(verdict) == RouteFirst(verdict)

NextRouted ==
    \/ \E k \in 1..3 : WriteFirstAs(PROTOCOLS[k])
    \/ WriteRouted
    \/ WriteDNS
    \/ SinkClose
    \/ SinkAbort
    \/ EnvNext

SpecRouted == Init /\ [][NextRouted]_vars

\* ------------------------------------------------------------------------
\* The sniffer and the decoders applied to one frame
\* ------------------------------------------------------------------------
Take(buf, n) == SubSeq(buf, 1, Min(n, Len(buf)))

PortBytes(port) == <<port \div 256, port % 256>>

\* atyp | addr | port | payload
SsFrames ==
    { <<f[1]>> \o f[2] \o PortBytes(port) \o payload :
        f \in {<<1, <<10, 0, 0, 1>> >>, <<3, <<3, 102, 111, 111>> >>, <<3, <<0>> >>,
               <<4, Zeros(16)>>, <<4, <<32, 1>> \o Zeros(13) \o <<171>> >>, <<2, <<1, 2>> >>},
        port \in {80, 53, 443},
        payload \in {<<>>, <<72, 73>>} }

\* version | uuid | optLen | opts | cmd | port | atyp | addr | payload
FlashFrames ==
    { <<version>> \o SampleUuid \o <<Len(opts)>> \o opts \o <<cmd>> \o PortBytes(443)
        \o <<f[1]>> \o f[2] \o <<80, 65, 89>> :
        version \in {0, 1},
        opts \in {<<>>, <<9, 9>>},
        cmd \in {1, 2, 5},
        f \in {<<1, <<10, 0, 0, 1>> >>, <<2, <<3, 102, 111, 111>> >>, <<2, <<0>> >>,
               <<3, Zeros(16)>>, <<4, <<1>> >>} }

\* hash | CRLF | cmd | atyp | addr | port | CRLF | payload
HorseFrames ==
    { Zeros(56) \o <<13, 10, cmd>> \o <<f[1]>> \o f[2] \o PortBytes(port)
        \o <<13, 10>> \o payload :
        cmd \in {1, 3, 127},
        f \in {<<1, <<10, 0, 0, 1>> >>, <<3, <<3, 102, 111, 111>> >>, <<3, <<0>> >>,
               <<4, Zeros(16)>>, <<2, <<1>> >>},
        port \in {53, 443},
        payload \in {<<>>, <<80>>} }

\* frames of 61..63 bytes around the Trojan marker, with and without a UUIDv4
MarkerFrames ==
    { Take(<<0>> \o uuid \o Zeros(39) \o <<b[1], b[2], b[3], b[4]>> \o Zeros(3), n) :
        uuid \in {SampleUuid, Zeros(16)},
        b \in {13, 0} \X {10, 0} \X {1, 3, 127, 2} \X {1, 3, 4, 2},
        n \in {61, 62, 63} }

\* every frame above, and every truncation of the well-formed ones
CodecFrames ==
    MarkerFrames
    \cup { Take(f, n) : f \in SsFrames, n \in 0..21 }
    \cup { Take(f, n) : f \in FlashFrames, n \in 17..43 }
    \cup { Take(f, n) : f \in HorseFrames, n \in 58..81 }

InitCodec ==
    /\ prxIP \in Hints
    /\ TunnelIdle
    /\ frame \in CodecFrames
    /\ sniffed = ""
    /\ ssHeader = HdrNone
    /\ flashHeader = HdrNone
    /\ horseHeader = HdrNone
    /\ CloseTestIdle

Sniff ==
    /\ sniffed = ""
    /\ sniffed' = protocolSniffer(frame)
    /\ UNCHANGED <<frame, ssHeader, flashHeader, horseHeader, closeTest, tunnelVars>>

DecodeSs ==
    /\ ssHeader = HdrNone
    /\ ssHeader' = readSsHeader(frame)
    /\ UNCHANGED <<frame, sniffed, flashHeader, horseHeader, closeTest, tunnelVars>>

DecodeFlash ==
    /\ flashHeader = HdrNone
    /\ flashHeader' = readFlashHeader(frame)
    /\ UNCHANGED <<frame, sniffed, ssHeader, horseHeader, closeTest, tunnelVars>>

DecodeHorse ==
    /\ horseHeader = HdrNone
    /\ horseHeader' = readHorseHeader(frame)
    /\ UNCHANGED <<frame, sniffed, ssHeader, flashHeader, closeTest, tunnelVars>>

NextCodec == Sniff \/ DecodeSs \/ DecodeFlash \/ DecodeHorse

SpecCodec == InitCodec /\ [][NextCodec]_vars

\* ------------------------------------------------------------------------
\* safeCloseWebSocket applied to one socket object, any number of times
\* ------------------------------------------------------------------------
MaxSafeCloses == 3

\* socket.readyState: CONNECTING (0) until accepted
TestReadyState(t) == IF ~t.accepted THEN 0 ELSE ReadyState(t.in, t.out)

\* no catch clause: what close() throws leaves safeCloseWebSocket
SafeCloseNoCatch(thrown) == thrown

\* lines 280-286: try { ... } catch (error) { console.error(...) }: whether an
\* exception thrown inside the try block leaves safeCloseWebSocket
SafeCloseCatch(thrown) == FALSE

InitClose ==
    /\ prxIP \in Hints
    /\ TunnelIdle
    /\ CodecIdle
    /\ \E accepted \in BOOLEAN, in \in BOOLEAN, out \in BOOLEAN, throws \in BOOLEAN :
           /\ accepted \/ (~in /\ ~out)
           /\ closeTest = CloseTestSocket(accepted, in, out, throws)

\* safeCloseWebSocket(socket)
SafeCloseCall ==
    /\ closeTest.invocations < MaxSafeCloses
    /\ LET readyState == TestReadyState(closeTest)
           called == CloseInvoked(readyState)
           thrown == called /\ closeTest.throws
       IN closeTest' = [closeTest EXCEPT
                           !.invocations = @ + 1,
                           !.closeCalls = IF called THEN @ + 1 ELSE @,
                           !.out = IF called /\ ~thrown THEN TRUE ELSE @,
                           !.raised = @ \/ SafeCloseCatch(thrown),
                           !.lastReady = readyState,
                           !.lastCalled = called]
    /\ UNCHANGED <<codecVars, tunnelVars>>

\* the socket is accepted
TestAccept ==
    /\ ~closeTest.accepted
    /\ closeTest' = [closeTest EXCEPT !.accepted = TRUE]
    /\ UNCHANGED <<codecVars, tunnelVars>>

\* the peer's close arrives
TestPeerClose ==
    /\ closeTest.accepted
    /\ ~closeTest.in
    /\ closeTest' = [closeTest EXCEPT !.in = TRUE]
    /\ UNCHANGED <<codecVars, tunnelVars>>

NextClose == SafeCloseCall \/ TestAccept \/ TestPeerClose

SpecClose == InitClose /\ [][NextClose]_vars

\* ========================================================================
\* Properties of the sniffer and the decoders (under SpecCodec)
\* ========================================================================
\* the Trojan marker as the wire format states it: CR LF cmd atyp at 56..59
TrojanMarker(f) ==
    /\ Len(f) >= 62
    /\ f[57] = 13
    /\ f[58] = 10
    /\ f[59] \in {1, 3, 127}
    /\ f[60] \in {1, 3, 4}

\* bytes [1..17) have the UUIDv4 shape: version nibble 4 at byte 7, variant
\* nibble 8..b at byte 9
UuidV4Shape(f) ==
    /\ Len(f) >= 17
    /\ f[8] \div 16 = 4
    /\ f[10] \div 16 \in {8, 9, 10, 11}

\* C4: every first chunk not matched by the Trojan rule whose bytes [1..17)
\* have the UUIDv4 shape is sniffed as VLESS.
C4_UuidSniffedAsVless ==
    (sniffed # "" /\ ~TrojanMarker(frame) /\ UuidV4Shape(frame)) => sniffed = "vless"

\* C5: the sniffer answers Trojan exactly for the chunks of at least 62 bytes
\* that carry the marker at 56..59, whatever their other bytes are.
C5_TrojanIffMarker ==
    sniffed # "" => (sniffed = "trojan" <=> TrojanMarker(frame))

\* a marker frame with cmd byte 0x7f that also carries a UUIDv4 was sniffed Trojan
C5_Witness ==
    /\ sniffed = "trojan"
    /\ frame[59] = 127
    /\ UuidV4Shape(frame)

\* length of the address field (length byte included) that the tag at 0-based
\* offset `at` declares, for the tag values ipv4, domain and ipv6 of a protocol
AddrFieldLen(f, at, ipv4, domain, ipv6) ==
    IF f[at + 1] = ipv4 THEN 4
    ELSE IF f[at + 1] = domain THEN 1 + f[at + 2]
    ELSE 16

\* header lengths by the wire formats:
\* SS tag+address+port; VLESS through the address; Trojan through the CRLF
\* that follows the port
SsHeaderLen(f) == 1 + AddrFieldLen(f, 0, 1, 3, 4) + 2
FlashHeaderLen(f) == 18 + f[18] + 1 + 2 + 1 + AddrFieldLen(f, 18 + f[18] + 3, 1, 2, 3)
HorseHeaderLen(f) == 58 + 1 + 1 + AddrFieldLen(f, 59, 1, 3, 4) + 2 + 2

ResidualIsSuffixAfter(h, n) ==
    /\ h.rawClientData = SubSeq(frame, n + 1, Len(frame))
    /\ Take(frame, n) \o h.rawClientData = frame

\* C6: on every frame a decoder accepts, the residual is the suffix of the frame
\* that starts right after the last header byte, so header and residual
\* concatenated give the frame back and do not overlap.
C6_ResidualAfterHeader ==
    /\ ssHeader.st = "ok" => ResidualIsSuffixAfter(ssHeader, SsHeaderLen(frame))
    /\ flashHeader.st = "ok" => ResidualIsSuffixAfter(flashHeader, FlashHeaderLen(frame))
    /\ horseHeader.st = "ok" => ResidualIsSuffixAfter(horseHeader, HorseHeaderLen(frame))

\* the Trojan decoder accepted a frame with a domain address and left the one
\* payload byte that follows the CRLF as residual
C6_Witness ==
    /\ horseHeader.st = "ok"
    /\ horseHeader.addressType = 3
    /\ horseHeader.rawClientData = <<80>>
    /\ Len(frame) = HorseHeaderLen(frame) + 1

\* ========================================================================
\* Properties of the tunnel (under Spec, C3 under SpecRouted)
\* ========================================================================
RetrySocks == {i \in SockIds : socks[i].viaRetry}

\* C1: the retry closure runs at most once, at most two remote TCP connections
\* are opened for the tunnel, and the bridge started by the retry has no retry
\* of its own, also when the second connection ends with zero bytes.
C1_RetryAtMostOnce ==
    /\ Cardinality(RetrySocks) <= 1
    /\ Len(socks) <= 2
    /\ \A i \in RetrySocks : ~socks[i].retry

\* the connection opened by the retry ended with zero bytes as well
C1_Witness ==
    /\ Len(socks) = 2
    /\ socks[2].viaRetry
    /\ socks[2].stage = "done"
    /\ ~socks[2].hasIncomingData

PayloadOnly(f) == f \in RemoteChunks
PreludeThenPayload(f) ==
    /\ parsed.version # NoVersion
    /\ \E c \in RemoteChunks : f = parsed.version \o c

\* C3: the response prelude goes to the client in at most one frame, that
\* frame is the first remote-to-client frame of the tunnel and holds the
\* prelude immediately followed by the payload chunk; every other frame is
\* the payload alone.
C3_PreludeOnceAsPrefix ==
    \A k \in 1..Len(wsSent) :
        \/ PayloadOnly(wsSent[k])
        \/ k = 1 /\ PreludeThenPayload(wsSent[k])

\* after a retry, the first frame carried the prelude and a second frame followed
C3_Witness ==
    /\ Len(socks) = 2
    /\ Len(wsSent) = 2
    /\ PreludeThenPayload(wsSent[1])
    /\ PayloadOnly(wsSent[2])

\* C7: a first chunk parsed with isUDP enters the DNS state only for port 53;
\* for any other port the tunnel fails, no connection is opened to the parsed
\* address or to the DNS server, and the WebSocket is closed.
C7_UdpOnlyPort53 ==
    /\ isDNS => (parsed.st = "ok" /\ parsed.isUDP /\ parsed.portRemote = 53)
    /\ (parsed.st = "ok" /\ parsed.isUDP /\ parsed.portRemote # 53) =>
           /\ ~isDNS
           /\ pipe = "errored"
           /\ socks = <<>>
           /\ dnsConn = 0
           /\ dnsWire = <<>>
           /\ wsOut

\* a Trojan UDP request for port 80 was refused, and the later client
\* messages opened nothing
C7_Witness ==
    /\ parsed.st = "ok"
    /\ parsed.isUDP
    /\ parsed.portRemote = 80
    /\ pipeError = "UDP only supports DNS port 53"
    /\ nMsgs = MaxMsgs

\* what each socket received after the residual, socket after socket
RECURSIVE WireChunks(_)
WireChunks(n) ==
    IF n = 0 THEN <<>>
    ELSE WireChunks(n - 1) \o (IF socks[n].wire = <<>> THEN <<>> ELSE Tail(socks[n].wire))

\* C8: once routed, every further client chunk is written exactly once,
\* unmodified and in arrival order to the remote, after the residual: when no
\* write is pending and no write has failed, the remote has received exactly
\* the chunks handed to write().
C8_ChunksForwardedInOrder ==
    (remoteValue # 0 /\ pipe # "writing" /\ pipeError # "write failed") =>
        /\ WireChunks(Len(socks)) = taken
        /\ \A i \in SockIds :
               socks[i].wire # <<>> => socks[i].wire[1] = parsed.rawClientData

\* C9: when the tunnel has ended (the client closed the WebSocket and the
\* sink was closed, the WebSocket errored and the sink was aborted, or a fatal
\* error ended the pipeline) and the gateway has no write left pending, no
\* remote socket it opened is left open.
C9_RemoteSocketClosedAtEnd ==
    (/\ pipe \in {"closed", "aborted", "errored"}
     /\ \A i \in SockIds : socks[i].wpend = "none"
     /\ dns.st = "none") =>
        \A i \in SockIds : socks[i].rd # "open"

\* C10: when the remote closed its side after delivering data, or on the
\* connection opened by the retry, and the client pipeline has nothing left
\* to do, the WebSocket has been closed.
C10_RemoteCloseClosesWs ==
    \A i \in SockIds :
        (/\ socks[i].rd = "eof"
         /\ socks[i].hasIncomingData \/ socks[i].viaRetry
         /\ pipe = "idle"
         /\ inq = <<>>) => wsOut

\* the first chunk was refused: a decoder returned hasError or threw, or the
\* parse asked for UDP on a port other than 53
FirstChunkRefused ==
    \/ parsed.st \in {"error", "throw"}
    \/ parsed.st = "ok" /\ parsed.isUDP /\ parsed.portRemote # 53

\* C11: after a decode or parse error on the first chunk the tunnel is neither
\* routed nor in the DNS state, no connection has been opened, no later client
\* chunk has been handed to write() or written anywhere, the pipeline has
\* failed and the WebSocket has been closed.
C11_ParseErrorIsFatal ==
    FirstChunkRefused =>
        /\ ~isDNS
        /\ remoteValue = 0
        /\ socks = <<>>
        /\ dnsConn = 0
        /\ dnsWire = <<>>
        /\ taken = <<>>
        /\ pipe = "errored"
        /\ wsOut

\* a Trojan frame with command 0x7f passed the sniffer, was refused by the
\* decoder, and the client's later messages went nowhere
C11_Witness ==
    /\ parsed.st = "error"
    /\ pipeError = "Unsupported Trojan command"
    /\ nMsgs = MaxMsgs
    /\ wsOut

\* C12: safeCloseWebSocket never raises, whatever the ready state and also
\* when close() throws; each invocation calls close() exactly when the ready
\* state on entry is OPEN (1) or CLOSING (2), so it does nothing on a closed
\* socket, however often it is invoked.
C12_SafeCloseNeverRaises ==
    /\ ~closeTest.raised
    /\ closeTest.invocations > 0 =>
           (closeTest.lastCalled <=> closeTest.lastReady \in {1, 2})
    /\ (closeTest.invocations > 0 /\ closeTest.lastReady = 3) =>
           (~closeTest.lastCalled /\ closeTest.in /\ closeTest.out)

\* close() threw on each of the invocations and none of them raised, and
\* separately an invocation found the socket closed
C12_Witness ==
    /\ closeTest.invocations = MaxSafeCloses
    /\ closeTest.throws
    /\ closeTest.closeCalls = MaxSafeCloses
    /\ ~closeTest.raised

\* C13: once the downstream has cancelled the inbound stream, close() has been
\* invoked on the WebSocket exactly once, in every order of the cancel with
\* the WebSocket's close and error events.
C13_CancelClosesOnce ==
    readableStreamCancel => wsCloseCalls = 1

\* C14: no writer is requested on a remote socket whose writable side is
\* locked: the pipeline never fails on getWriter(), and a chunk write is
\* pending only on a socket whose residual write has completed.
C14_OneRemoteWriter ==
    /\ pipeError # "locked"
    /\ \A i \in SockIds : socks[i].wpend = "chunk" => socks[i].stage # "connecting"

\* the bridges that may pass frames to webSocket.send
ActiveTcpBridges == {i \in SockIds : socks[i].stage = "bridging"}
ActiveDnsBridges == dnsConn - dnsDone

\* C15: at most one remote-to-WebSocket bridge is active at any time, be it
\* the initial TCP bridge, the retry bridge or the DNS bridge of one chunk; a
\* later bridge exists only when the earlier ones have finished.
C15_OneBridgeAtATime ==
    /\ Cardinality(ActiveTcpBridges) + ActiveDnsBridges <= 1
    /\ \A i \in SockIds :
           socks[i].stage = "bridging" =>
               \A j \in 1..(i - 1) : socks[j].stage \in {"done", "dead"}

\* the DNS bridge of a second client chunk is sending after the first has
\* finished
C15_Witness ==
    /\ dnsConn = 2
    /\ dnsDone = 1
    /\ dns.st = "bridging"
    /\ dns.nrx >= 1
    /\ Len(wsSent) >= 2

\* C16: the sniffer and a decoder run on one chunk of the tunnel only: no
\* second chunk is ever interpreted as a protocol header.
C16_OneParsedHeader ==
    nParsed <= 1

\* address fields of well-formed frames with the text each stands for:
\* 10.0.0.1, foo, 0:0:0:0:0:0:0:0 and 2001:0:0:0:0:0:0:ab
TextIpv4 == <<49, 48, 46, 48, 46, 48, 46, 49>>
TextFoo == <<102, 111, 111>>
TextIpv6Zero == <<48, 58, 48, 58, 48, 58, 48, 58, 48, 58, 48, 58, 48, 58, 48>>
TextIpv6Ab == <<50, 48, 48, 49, 58, 48, 58, 48, 58, 48, 58, 48, 58, 48, 58, 48, 58, 97, 98>>

\* kind, address bytes (with the length prefix of a domain), expected text
WellFormedAddrs ==
    { <<"ipv4", <<10, 0, 0, 1>>, TextIpv4>>,
      <<"domain", <<3, 102, 111, 111>>, TextFoo>>,
      <<"ipv6", Zeros(16), TextIpv6Zero>>,
      <<"ipv6", <<32, 1>> \o Zeros(13) \o <<171>>, TextIpv6Ab>> }

SsTag(kind) == CASE kind = "ipv4" -> 1 [] kind = "domain" -> 3 [] OTHER -> 4

\* C17: on a well-formed frame atyp | addr | port | payload readSsHeader
\* returns ok with the address rendered by type (dotted decimal, the text of
\* the length-prefixed bytes, eight colon-separated lowercase hex groups
\* without brackets), the port 256*hi + lo and the payload as residual;
\* 01 0A 00 00 01 00 50 48 49 gives 10.0.0.1, 80, 'HI' and isUDP false.
C17_SsDecodesWellFormed ==
    ssHeader # HdrNone =>
        /\ \A a \in WellFormedAddrs, payload \in {<<>>, <<72, 73>>} :
               LET n == 1 + Len(a[2])
               IN (/\ Len(frame) = n + 2 + Len(payload)
                   /\ SubSeq(frame, 1, n) = <<SsTag(a[1])>> \o a[2]
                   /\ SubSeq(frame, n + 3, Len(frame)) = payload) =>
                      /\ ssHeader.st = "ok"
                      /\ ssHeader.addressRemote = a[3]
                      /\ ssHeader.portRemote = 256 * frame[n + 1] + frame[n + 2]
                      /\ ssHeader.rawClientData = payload
        /\ frame = <<1, 10, 0, 0, 1, 0, 80, 72, 73>> =>
               /\ ssHeader.addressRemote = TextIpv4
               /\ ssHeader.portRemote = 80
               /\ ssHeader.rawClientData = <<72, 73>>
               /\ ~ssHeader.isUDP

\* readSsHeader has decoded an IPv6 frame for 2001:0:0:0:0:0:0:ab, port 443
C17_Witness ==
    /\ frame = <<4, 32, 1>> \o Zeros(13) \o <<171, 1, 187, 72, 73>>
    /\ ssHeader.st = "ok"
    /\ ssHeader.addressRemote = TextIpv6Ab
    /\ ssHeader.portRemote = 443

FlashTag(kind) == CASE kind = "ipv4" -> 1 [] kind = "domain" -> 2 [] OTHER -> 3

\* C18: for each option length, on a well-formed frame
\* version | uuid | optLen | opts | cmd | port | atyp | addr | payload with
\* cmd 1 or 2, readFlashHeader returns ok with the port 256*hi + lo read
\* right after the command at offset 18+optLen, the address by its tag
\* (1 IPv4, 2 domain, 3 IPv6 inside brackets), the prelude {frame[0], 0},
\* isUDP exactly for command 2, and the payload as residual.
C18_FlashDecodesLayout ==
    flashHeader # HdrNone =>
        \A a \in WellFormedAddrs, optLen \in {0, 2} :
            LET c == 18 + optLen + 1
                n == c + 3 + Len(a[2])
            IN (/\ Len(frame) >= n
                /\ frame[18] = optLen
                /\ frame[c] \in {1, 2}
                /\ SubSeq(frame, c + 3, n) = <<FlashTag(a[1])>> \o a[2]) =>
                   /\ flashHeader.st = "ok"
                   /\ flashHeader.portRemote = 256 * frame[c + 1] + frame[c + 2]
                   /\ flashHeader.addressRemote =
                          (IF a[1] = "ipv6" THEN <<91>> \o a[3] \o <<93>> ELSE a[3])
                   /\ flashHeader.version = <<frame[1], 0>>
                   /\ flashHeader.isUDP = (frame[c] = 2)
                   /\ flashHeader.rawClientData = SubSeq(frame, n + 1, Len(frame))

\* a frame with version byte 1, two option bytes, command 2 and an IPv6
\* address has been decoded
C18_Witness ==
    /\ flashHeader.st = "ok"
    /\ frame[1] = 1
    /\ frame[18] = 2
    /\ flashHeader.isUDP
    /\ flashHeader.addressRemote = <<91>> \o TextIpv6Zero \o <<93>>
    /\ flashHeader.version = <<1, 0>>
    /\ flashHeader.rawClientData = <<80, 65, 89>>

\* C19: when the write of the residual to a remote socket (initial or retry)
\* has failed and the client pipeline has nothing left to do, the WebSocket
\* has been closed.
C19_RemoteFailureIsFatal ==
    (/\ \E i \in SockIds : socks[i].stage = "dead"
     /\ pipe = "idle"
     /\ inq = <<>>) => wsOut


\* the early-data header of the request does not decode
EarlyDataDecodeError == base64ToArrayBuffer(earlyDataHeader).error

\* the gateway has nothing left to do for the client pipeline: pipeTo has
\* settled and no handleUDPOutbound call is in progress
PipelineSettled == pipe \in {"aborted", "closed", "errored"} /\ dns.st = "none"

\* C20: after a request whose early-data header does not decode, no chunk
\* reaches the sink, no connection is opened to a remote endpoint or to the
\* DNS server, and once the client pipeline has settled the WebSocket has
\* been closed.
C20_EarlyDataErrorClosesTunnel ==
    EarlyDataDecodeError =>
        /\ nParsed = 0 /\ cur = <<>> /\ taken = <<>>
        /\ socks = <<>> /\ dnsConn = 0
        /\ PipelineSettled => wsOut


\* C21: no frame is passed to webSocket.send while the WebSocket is not OPEN,
\* and a bridge that met a remote chunk in that state has been aborted: its
\* readable side is cancelled and it takes no further chunk.
C21_NoSendWhenNotOpen ==
    /\ sendNotOpen = 0
    /\ \A i \in SockIds : socks[i].rd = "cancelled" => socks[i].stage = "done"


\* C22: what a remote socket or the DNS server receives first for the first
\* client chunk is the residual of that chunk, the bytes after the protocol
\* header, and no byte of the header.
C22_ResidualFirstOnWire ==
    /\ \A i \in SockIds :
           socks[i].wire # <<>> => socks[i].wire[1] = parsed.rawClientData
    /\ dnsWire # <<>> => dnsWire[1] = parsed.rawClientData


\* the hint read as host, delimiter, digits: the delimiter is the last
\* character of the hint that is one of ':' '=' '-'
HintDelimiterAt(hint) ==
    CHOOSE k \in 1..Len(hint) :
        /\ hint[k] \in {58, 61, 45}
        /\ \A j \in (k + 1)..Len(hint) : hint[j] \notin {58, 61, 45}
HintHost(hint) == SubSeq(hint, 1, HintDelimiterAt(hint) - 1)
HintPort(hint) == SubSeq(hint, HintDelimiterAt(hint) + 1, Len(hint))

\* C23: the connection opened by the retry goes to the host and to the port
\* of the upstream hint, the host being all that precedes the delimiter in
\* front of the digits, also when it contains a delimiter character itself;
\* the first bytes written to it are the residual written to the initial
\* connection.
C23_RetryTargetsHint ==
    \A i \in RetrySocks :
        /\ socks[i].hostname = HintHost(prxIP)
        /\ socks[i].port = HintPort(prxIP)
        /\ socks[i].wire # <<>> =>
               /\ socks[i].wire[1] = parsed.rawClientData
               /\ socks[i].wire[1] = socks[i - 1].wire[1]


\* the high-water mark of readableWebSocketStream: the ReadableStream is
\* constructed without a queuing strategy, so it is the default, one chunk
QueueLimit == 1

\* the sink is inside a write() that has not returned: a chunk write to the
\* remote socket or a handleUDPOutbound call is pending
SinkStalled == pipe \in {"writing", "dns"}

\* C24: while the sink is stalled, the chunks queued in the inbound stream
\* stay within the stream's limit, however many message events arrive.
C24_InboundQueueBounded ==
    SinkStalled => Len(inq) <= QueueLimit


\* a decoder returned the error value with this message
Reports(h, msg) == h.st = "error" /\ h.message = msg

\* C25: a decoder handed a malformed header returns an error value, never ok:
\* InvalidAddressType for an address tag outside the protocol's set (SS and
\* Trojan 1, 3, 4; VLESS 1, 2, 3), EmptyAddress for a domain of length 0,
\* UnsupportedCommand for a VLESS command outside {1, 2} or a Trojan command
\* outside {1, 3}, TooShort for a Trojan frame with fewer than 6 bytes after
\* offset 58; each for a frame that is well-formed up to that field.
C25_MalformedHeaderIsError ==
    /\ (ssHeader # HdrNone /\ Len(frame) >= 1) =>
           /\ frame[1] \notin {1, 3, 4} =>
                  Reports(ssHeader, "Invalid addressType for SS")
           /\ (Len(frame) >= 2 /\ frame[1] = 3 /\ frame[2] = 0) =>
                  Reports(ssHeader, "Destination address empty for SS")
    /\ (flashHeader # HdrNone /\ Len(frame) >= 18) =>
           LET c == 18 + frame[18] + 1
           IN  /\ (Len(frame) >= c /\ frame[c] \notin {1, 2}) =>
                      Reports(flashHeader, "Unsupported VLESS command")
               /\ (Len(frame) >= c + 3 /\ frame[c] \in {1, 2}
                       /\ frame[c + 3] \notin {1, 2, 3}) =>
                      Reports(flashHeader, "Invalid VLESS addressType")
               /\ (Len(frame) >= c + 4 /\ frame[c] \in {1, 2}
                       /\ frame[c + 3] = 2 /\ frame[c + 4] = 0) =>
                      Reports(flashHeader, "Empty VLESS address")
    /\ horseHeader # HdrNone =>
           /\ Len(frame) < 64 => Reports(horseHeader, "Invalid Trojan request data")
           /\ (Len(frame) >= 64 /\ frame[59] \notin {1, 3}) =>
                  Reports(horseHeader, "Unsupported Trojan command")
           /\ (Len(frame) >= 64 /\ frame[59] \in {1, 3}
                   /\ frame[60] \notin {1, 3, 4}) =>
                  Reports(horseHeader, "Invalid Trojan addressType")
           /\ (Len(frame) >= 64 /\ frame[59] \in {1, 3}
                   /\ frame[60] = 3 /\ frame[61] = 0) =>
                  Reports(horseHeader, "Empty Trojan address")

\* a VLESS frame with address tag 4 was refused by readFlashHeader, and
\* readHorseHeader found it too short
C25_Witness ==
    /\ Len(frame) >= 18
    /\ frame[18] = 2
    /\ Len(frame) >= 24
    /\ frame[21] = 1
    /\ frame[24] = 4
    /\ Reports(flashHeader, "Invalid VLESS addressType")
    /\ Reports(horseHeader, "Invalid Trojan request data")


HorseTag(kind) == CASE kind = "ipv4" -> 1 [] kind = "domain" -> 3 [] OTHER -> 4

\* C26: on a well-formed frame hash(56) | CRLF | cmd | atyp | addr | port |
\* CRLF | payload with cmd 1 or 3, readHorseHeader returns ok with the
\* address by its tag (1 IPv4, 3 domain with a length byte, 4 IPv6 inside
\* brackets), the port 256*hi + lo, isUDP exactly for cmd 3, and as residual
\* the bytes that start two bytes after the port.
C26_HorseDecodesLayout ==
    horseHeader # HdrNone =>
        \A a \in WellFormedAddrs :
            LET n == 60 + Len(a[2])
            IN (/\ Len(frame) >= n + 4
                /\ frame[59] \in {1, 3}
                /\ SubSeq(frame, 60, n) = <<HorseTag(a[1])>> \o a[2]) =>
                   /\ horseHeader.st = "ok"
                   /\ horseHeader.addressRemote =
                          (IF a[1] = "ipv6" THEN <<91>> \o a[3] \o <<93>> ELSE a[3])
                   /\ horseHeader.portRemote = 256 * frame[n + 1] + frame[n + 2]
                   /\ horseHeader.isUDP = (frame[59] = 3)
                   /\ horseHeader.rawClientData = SubSeq(frame, n + 5, Len(frame))

\* a UDP request for [0:0:0:0:0:0:0:0] port 443 with one payload byte has
\* been decoded
C26_Witness ==
    /\ horseHeader.st = "ok"
    /\ frame[59] = 3
    /\ frame[60] = 4
    /\ horseHeader.isUDP
    /\ horseHeader.addressRemote = <<91>> \o TextIpv6Zero \o <<93>>
    /\ horseHeader.portRemote = 443
    /\ horseHeader.rawClientData = <<80>>


\* the first chunk was sniffed as Shadowsocks and readSsHeader accepted it
SsTunnel == protocol = PROTOCOLS[3] /\ parsed.st = "ok"

\* C27: in a Shadowsocks tunnel isUDP holds exactly for port 53; a first
\* chunk for port 53 puts the tunnel in the DNS state, with a connection to
\* the DNS server and none opened by handleTCPOutBound; a first chunk for
\* any other port is handed to handleTCPOutBound and never to the DNS
\* server; and no Shadowsocks first chunk ends the pipeline with 'UDP only
\* supports DNS port 53'.
C27_SsUdpIffPort53 ==
    /\ SsTunnel =>
           /\ parsed.isUDP <=> parsed.portRemote = 53
           /\ parsed.portRemote = 53 =>
                  /\ isDNS
                  /\ dnsConn >= 1
                  /\ socks = <<>>
                  /\ remoteValue = 0
           /\ parsed.portRemote # 53 =>
                  /\ ~isDNS
                  /\ dnsConn = 0
                  /\ dnsWire = <<>>
                  /\ socks # <<>> \/ ConnectThrows(parsed.addressRemote)
    /\ protocol = PROTOCOLS[3] => pipeError # "UDP only supports DNS port 53"

\* a Shadowsocks first chunk for port 53 has been written to the DNS server
\* and a second client chunk has followed it on a connection of its own
C27_Witness ==
    /\ SsTunnel
    /\ parsed.portRemote = 53
    /\ isDNS
    /\ dnsConn = 2
    /\ Len(dnsWire) = 2
    /\ socks = <<>>


\* the buffer the early-data header decodes to, <<>> when there is none
EarlyData == base64ToArrayBuffer(earlyDataHeader).earlyData

\* the sink has been handed nothing yet and the queue was not discarded
NothingDelivered ==
    /\ nParsed = 0
    /\ taken = <<>>
    /\ rs \in {"readable", "closeRequested"}
    /\ ~readableStreamCancel

\* before the first delivery the queue is the early data, if any, followed by
\* one chunk for each message event
QueueStartsWithEarlyData ==
    NothingDelivered =>
        IF earlyDataHeader # <<>> /\ EarlyData # <<>>
        THEN Len(inq) = 1 + nMsgs /\ inq[1] = EarlyData
        ELSE Len(inq) = nMsgs

\* the first chunk the sniffer and a decoder run on is the early data
EarlyDataParsedFirst ==
    (nParsed = 0 /\ nParsed' = 1 /\ earlyDataHeader # <<>> /\ EarlyData # <<>>) =>
        /\ protocol' = protocolSniffer(EarlyData)
        /\ parsed' = ReadHeader(protocol', EarlyData)

\* a message event on a stream that takes chunks adds exactly one chunk, behind
\* those queued
MessageYieldsOneChunk ==
    (nMsgs' = nMsgs + 1 /\ rs = "readable" /\ ~readableStreamCancel) =>
        /\ Len(inq') = Len(inq) + 1
        /\ SubSeq(inq', 1, Len(inq)) = inq
        /\ inq'[Len(inq')] \in FirstFrames \cup LaterChunks

\* the sink is handed the chunk at the head of the queue, and the others stay
\* queued in their order
HeadIsDelivered ==
    (nParsed' = nParsed + 1 \/ Len(taken') = Len(taken) + 1) =>
        /\ inq # <<>>
        /\ inq' \in {Tail(inq), <<>>}
        /\ nParsed' = nParsed + 1 =>
               parsed' = ReadHeader(protocol', Head(inq))
        /\ Len(taken') = Len(taken) + 1 => taken' = Append(taken, Head(inq))

\* C28: a non-empty early-data buffer is the first chunk the sink is handed,
\* ahead of the chunk of any message event; each message event adds exactly
\* one chunk and chunks are delivered in arrival order; without the header
\* no chunk is queued or delivered before the first message.
C28_EarlyDataFirst ==
    /\ []QueueStartsWithEarlyData
    /\ [][EarlyDataParsedFirst /\ MessageYieldsOneChunk /\ HeadIsDelivered]_vars

\* the early data was routed as the first chunk and the two messages that
\* followed were handed to the sink in their order
C28_Witness ==
    /\ earlyDataHeader = EarlyDataSsDns
    /\ EarlyData = SsDnsFrame
    /\ nParsed = 1
    /\ parsed = readSsHeader(SsDnsFrame)
    /\ taken = << <<65>>, <<66, 67>> >>


\* a chunk of at least 62 bytes with CR LF at 56..57, 0x7f at 58 and an
\* address tag at 59
Marker7f(chunk) ==
    /\ Len(chunk) >= 62
    /\ chunk[57] = 13
    /\ chunk[58] = 10
    /\ chunk[59] = 127
    /\ chunk[60] \in {1, 3, 4}

\* this step runs the sniffer and a decoder on such a chunk
Handles7f == nParsed' = nParsed + 1 /\ inq # <<>> /\ Marker7f(Head(inq))

\* the step sniffed Trojan, readHorseHeader refused the chunk with msg, and
\* the tunnel ended: pipeline failed, WebSocket closed, nothing connected
RefusedAsTrojan(msg) ==
    /\ protocol' = PROTOCOLS[1]
    /\ parsed' = HdrError(msg)
    /\ pipe' = "errored"
    /\ pipeError' = msg
    /\ wsOut'
    /\ socks' = <<>>
    /\ dnsConn' = 0

\* once the pipeline has failed no chunk is handed to a decoder
NoDecoderAfterFailure == pipe = "errored" => nParsed' = nParsed

\* C29 as stated: a first chunk of at least 62 bytes with the marker and
\* 0x7f at 58 is sniffed Trojan, refused by readHorseHeader with
\* UnsupportedCommand, the tunnel ends, and no other decoder sees the chunk.
C29_Marker7fUnsupported ==
    [][/\ Handles7f => RefusedAsTrojan("Unsupported Trojan command")
       /\ NoDecoderAfterFailure]_vars

\* C29 amended: such a chunk is sniffed Trojan and refused by
\* readHorseHeader, with UnsupportedCommand when it has at least 64 bytes and
\* with TooShort when it has 62 or 63; the tunnel ends, and no other decoder
\* sees the chunk.
C29_Marker7fRefused ==
    [][/\ Handles7f =>
              RefusedAsTrojan(IF Len(Head(inq)) >= 64
                              THEN "Unsupported Trojan command"
                              ELSE "Invalid Trojan request data")
       /\ NoDecoderAfterFailure]_vars

\* readHorseHeader has refused the command of a first chunk sniffed as
\* Trojan, and the tunnel has ended with nothing connected
C29_Witness ==
    /\ protocol = PROTOCOLS[1]
    /\ parsed = HdrError("Unsupported Trojan command")
    /\ nParsed = 1
    /\ pipe = "errored"
    /\ wsOut
    /\ socks = <<>>


\* C30: a decoder returns ok only for a frame that holds every header byte
\* its tag and length prefix declare, the address in full and the two bytes
\* of the port: a frame cut inside the header is never parsed ok.
C30_NoTruncatedHeaderOk ==
    /\ ssHeader.st = "ok" => Len(frame) >= SsHeaderLen(frame)
    /\ flashHeader.st = "ok" => Len(frame) >= FlashHeaderLen(frame)
    /\ horseHeader.st = "ok" => Len(frame) >= HorseHeaderLen(frame) - 2


\* C31: a step after which the WebSocket is closed (safeCloseWebSocket has
\* run, in that step or before) or is known not to be OPEN (the client's close
\* has arrived) opens no new remote TCP connection for the tunnel; stated for
\* the connection the claim singles out, the retry of
\* handleTCPOutBound, which must not be opened once the WebSocket is closed.
C31_NoRetryAfterClose ==
    [][(wsOut' \/ wsIn') => RetrySocks' = RetrySocks]_vars

====
